---- MODULE Spec2Model ----
(***************************************************************************)
(* Model of duplicates.py: the two-pass duplicate finder                   *)
(* (find_duplicates, hashfile, process_file_for_hashing), the deletion     *)
(* phase (delete_duplicates) and the part of main that connects them.      *)
(*                                                                         *)
(* The file system under the scanned root is a fixed set of entries, each  *)
(* with the attributes the code can observe: what kind of entry it is,     *)
(* the bytes a read returns, whether stat and open succeed.  Library calls *)
(* are modelled by what they do on such a tree:                            *)
(*   os.walk            lists every non-directory entry in `filenames`     *)
(*                      (regular files, symlinks to files, FIFOs, sockets, *)
(*                      devices), in an order the caller does not control, *)
(*                      and, called without onerror, swallows the OSError  *)
(*                      of a directory it cannot list;                     *)
(*   os.path.getsize    st_size of the entry: the content length of a      *)
(*                      regular file, 0 for a special file;                *)
(*   Pool.starmap       hands the tasks to the workers in queue order, the *)
(*                      workers finish in any order, and the results are   *)
(*                      returned in task order.                            *)
(***************************************************************************)
EXTENDS Integers, Sequences, FiniteSets, TLC

\* ---------------------------------------------------------------- bounds
NumPaths == 4            \* entries under the scanned root
MaxWorkers == 2          \* largest os.cpu_count() considered
blocksize == 1           \* chunk size of hashfile, scaled down from 65536

Paths == 1..NumPaths
Bytes == {1, 2}
None == <<>>             \* Python's None (hashfile's "absent" digest)

\* The algorithm of the scan: the default of find_duplicates and of
\* --hash-algo.  The other choice, md5, is the same code with another digest.
hash_algo == "sha256"

\* ------------------------------------------------------------ file tree
\* The kinds of entry os.walk reports in `filenames`, each with the bytes a
\* read returns (`content`), whether stat succeeds (`statable`) and whether
\* open/read succeeds (`readable`).  A link carries its target's content.
\* The special entry is a device node: st_size 0, and a read returns bytes.
Catalogue ==
  << [kind |-> "file",    content |-> <<1>>,    statable |-> TRUE,  readable |-> TRUE ],
     [kind |-> "file",    content |-> <<2>>,    statable |-> TRUE,  readable |-> TRUE ],
     [kind |-> "file",    content |-> <<1, 2>>, statable |-> TRUE,  readable |-> TRUE ],
     [kind |-> "file",    content |-> <<1>>,    statable |-> TRUE,  readable |-> FALSE],
     [kind |-> "file",    content |-> <<1>>,    statable |-> FALSE, readable |-> FALSE],
     [kind |-> "link",    content |-> <<1>>,    statable |-> TRUE,  readable |-> TRUE ],
     [kind |-> "special", content |-> <<1>>,    statable |-> TRUE,  readable |-> TRUE ] >>

\* Path names are interchangeable and Walk enumerates them in every order,
\* so trees are taken up to renaming of the paths.
Trees ==
  { t \in [Paths -> 1..Len(Catalogue)] : \A p \in Paths : p > 1 => t[p - 1] <= t[p] }

VARIABLES
  tree,              \* Paths -> entry of Catalogue; unchanged by a scan
  root,              \* "ok" | "denied" (a directory that cannot be listed) | "missing"
  pc,                \* position in main / find_duplicates / delete_duplicates
  file_list,         \* pass 1: paths collected by the walk
  size_map,          \* ordered dict size -> [paths]
  tasks,             \* paths submitted to the pool, in submission order
  pool,              \* number of workers of the pool (0: no pool)
  inflight,          \* indices of tasks a worker is executing
  results,           \* task index -> (path, digest-or-None) of finished tasks
  found_duplicates,  \* ordered dict digest -> [paths]
  delete,            \* args.delete
  dry_run,           \* args.dry_run
  gi,                \* delete_duplicates: index of the group handled next
  choice,            \* delete_duplicates: last answer read from input()
  prompts,           \* number of input() prompts issued
  exists,            \* paths still present on the file system
  exitStatus,        \* process exit status, -1 while running
  run,               \* 1: first scan, 2: scan repeated on the unchanged tree
  prev,              \* grouping found by the first scan
  report             \* the CSV report of this run: header and rows, empty while unwritten

vars == << tree, root, pc, file_list, size_map, tasks, pool, inflight,
           results, found_duplicates, delete, dry_run, gi, choice, prompts,
           exists, exitStatus, run, prev, report >>

Entry(p) == Catalogue[tree[p]]

\* ------------------------------------------------------------- hashfile
Min(a, b) == IF a < b THEN a ELSE b

\* hasher.update(buf): the accumulator absorbs the chunk.
update(hasher, buf) == hasher \o buf

\* hasher.hexdigest(): a fingerprint of everything absorbed, under the
\* algorithm's name.  The absorbed bytes are numbered bijectively (digits
\* 1..|Bytes|), so distinct inputs get distinct digests, as the code assumes
\* of md5 and sha256.
RECURSIVE Fingerprint(_)
Fingerprint(bytes) ==
  IF bytes = <<>> THEN 0
  ELSE Fingerprint(SubSeq(bytes, 1, Len(bytes) - 1)) * Cardinality(Bytes)
         + bytes[Len(bytes)]

hexdigest(algo, hasher) == << algo, Fingerprint(hasher) >>

\* file.read(blocksize) at offset pos.
read(content, pos) == SubSeq(content, pos + 1, Min(pos + blocksize, Len(content)))

\* The loop of hashfile: buf = read(); while len(buf) > 0: update; read.
RECURSIVE ReadLoop(_, _, _)
ReadLoop(content, pos, hasher) ==
  LET buf == read(content, pos)
  IN  IF Len(buf) > 0 THEN ReadLoop(content, pos + Len(buf), update(hasher, buf))
      ELSE hasher

\* hashfile(path): the digest, or None when open/read raises.
hashfile(path, algo) ==
  IF ~Entry(path).readable THEN None
  ELSE hexdigest(algo, ReadLoop(Entry(path).content, 0, <<>>))

process_file_for_hashing(path, algo) == << path, hashfile(path, algo) >>

\* ------------------------------------------------------ ordered dicts
\* A Python dict with list values, in insertion order: a sequence of
\* [k |-> key, v |-> list].  d.setdefault(key, []).append(x):
SetDefaultAppend(d, key, x) ==
  IF \E i \in 1..Len(d) : d[i].k = key
  THEN [i \in 1..Len(d) |-> IF d[i].k = key THEN [d[i] EXCEPT !.v = Append(@, x)] ELSE d[i]]
  ELSE Append(d, [k |-> key, v |-> << x >>])

Range(s) == { s[i] : i \in 1..Len(s) }

\* All the paths of the lists of an ordered dict, in order.
RECURSIVE Values(_)
Values(d) == IF d = <<>> THEN <<>> ELSE Head(d).v \o Values(Tail(d))

\* ----------------------------------------------------- find_duplicates
\* Variant: no entry is recognised as a link.
islink_Never(path) == FALSE

\* os.path.islink(file_path)
islink(path) == Entry(path).kind = "link"

\* The entries the walk appends to file_list.
Listed == IF root = "ok" THEN { p \in Paths : ~islink(p) } ELSE {}

\* os.path.getsize(path): st_size.
getsize(path) == IF Entry(path).kind = "special" THEN 0 ELSE Len(Entry(path).content)

\* Pass 1 loop: size_map.setdefault(file_size, []).append(path), a path
\* whose getsize raises is skipped.
RECURSIVE SizeMap(_)
SizeMap(list) ==
  IF list = <<>> THEN <<>>
  ELSE LET path == list[Len(list)]
           rest == SizeMap(SubSeq(list, 1, Len(list) - 1))
       IN  IF Entry(path).statable THEN SetDefaultAppend(rest, getsize(path), path)
           ELSE rest

\* Variant: a size group needs a third member to be a candidate.
IsCandidateGroup_MoreThanTwo(paths) == Len(paths) > 2

\* line 68: a size group is a candidate when len(paths) > 1.
IsCandidateGroup(paths) == Len(paths) > 1

PotentialDuplicates(sm) == SelectSeq(sm, LAMBDA g : IsCandidateGroup(g.v))

\* line 91: a digest group is reported when len(file_paths) > 1.
IsDuplicateGroup(file_paths) == Len(file_paths) > 1

FoundDuplicates(hashes) == SelectSeq(hashes, LAMBDA g : IsDuplicateGroup(g.v))

\* Variant: the result is merged without the test of its digest.
Merge_Unconditional(hashes, result) == SetDefaultAppend(hashes, result[2], result[1])

\* if file_hash: hashes.setdefault(file_hash, []).append(path)
Merge(hashes, result) ==
  IF result[2] # None THEN SetDefaultAppend(hashes, result[2], result[1]) ELSE hashes

RECURSIVE Hashes(_)
Hashes(res) ==
  IF res = <<>> THEN <<>>
  ELSE Merge(Hashes(SubSeq(res, 1, Len(res) - 1)), res[Len(res)])

\* The permutations of a set, as sequences.
Orders(S) ==
  { s \in [1..Cardinality(S) -> S] : \A i, j \in 1..Cardinality(S) : i # j => s[i] # s[j] }

\* ---------------------------------------------------------- save_to_csv
\* The report of the current run: the header, then one row (original,
\* duplicate) for every member of every group after its first.
NoReport == [header |-> <<>>, rows |-> <<>>]

RECURSIVE Pairs(_, _)
Pairs(orig, dups) ==
  IF dups = <<>> THEN <<>> ELSE << << orig, Head(dups) >> >> \o Pairs(orig, Tail(dups))

RECURSIVE Rows(_)
Rows(d) ==
  IF d = <<>> THEN <<>> ELSE Pairs(Head(d).v[1], Tail(Head(d).v)) \o Rows(Tail(d))

Csv(d) == [header |-> << "Original File", "Duplicate File" >>, rows |-> Rows(d)]

ScanReset ==
  /\ file_list' = <<>>
  /\ size_map' = <<>>
  /\ tasks' = <<>>
  /\ pool' = 0
  /\ inflight' = {}
  /\ results' = <<>>
  /\ found_duplicates' = <<>>

Init ==
  /\ tree \in Trees
  /\ root \in {"ok", "denied", "missing"}
  /\ pc = "main"
  /\ file_list = <<>>
  /\ size_map = <<>>
  /\ tasks = <<>>
  /\ pool = 0
  /\ inflight = {}
  /\ results = <<>>
  /\ found_duplicates = <<>>
  /\ delete = FALSE
  /\ dry_run = FALSE
  /\ gi = 0
  /\ choice = ""
  /\ prompts = 0
  /\ exists = Paths
  /\ exitStatus = -1
  /\ run = 1
  /\ prev = {}
  /\ report = NoReport

\* main, lines 200-205: the root must be a directory.
MainCheckRoot ==
  /\ pc = "main"
  /\ IF root = "missing"
     THEN pc' = "exit" /\ exitStatus' = 1
     ELSE pc' = "walk" /\ exitStatus' = exitStatus
  /\ UNCHANGED << tree, root, file_list, size_map, tasks, pool, inflight,
                  results, found_duplicates, delete, dry_run, gi, choice, prompts,
                  exists, run, prev, report >>

\* find_duplicates, lines 46-56: the walk.  os.walk does not raise when a
\* directory cannot be listed, so a denied root yields no entry at all and
\* the PermissionError handler of line 54 is not entered.
Walk ==
  /\ pc = "walk"
  /\ \E order \in Orders(Listed) : file_list' = order
  /\ pc' = "pass1"
  /\ UNCHANGED << tree, root, size_map, tasks, pool, inflight, results,
                  found_duplicates, delete, dry_run, gi, choice, prompts, exists,
                  exitStatus, run, prev, report >>

\* find_duplicates, lines 58-80: size grouping, the candidates, the early
\* return when nothing is left to hash, and the task list.
Pass1 ==
  /\ pc = "pass1"
  /\ size_map' = SizeMap(file_list)
  /\ LET candidates == Values(PotentialDuplicates(size_map'))
     IN  IF Len(candidates) = 0
         THEN /\ tasks' = <<>>
              /\ found_duplicates' = <<>>
              /\ pc' = "scanned"
         ELSE /\ tasks' = candidates
              /\ found_duplicates' = found_duplicates
              /\ pc' = "pool"
  /\ UNCHANGED << tree, root, file_list, pool, inflight, results, delete,
                  dry_run, gi, choice, prompts, exists, exitStatus, run, prev, report >>

\* lines 82-83: multiprocessing.Pool(os.cpu_count()) and the submission of
\* the tasks: each worker takes a task from the head of the queue.  The
\* locals of pass 1 (file_list, size_map) are not read again and leave the
\* state here.
PoolStart ==
  /\ pc = "pool"
  /\ \E n \in 1..MaxWorkers :
       /\ pool' = n
       /\ inflight' = 1..Min(n, Len(tasks))
  /\ results' = [i \in {} |-> None]
  /\ file_list' = <<>>
  /\ size_map' = <<>>
  /\ pc' = "hashing"
  /\ UNCHANGED << tree, root, tasks, found_duplicates,
                  delete, dry_run, gi, choice, prompts, exists, exitStatus, run, prev, report >>

\* The tasks taken from the queue so far, and what a worker that has just
\* finished takes next.
Taken == DOMAIN results \cup inflight

NextTask == IF Cardinality(Taken) < Len(tasks) THEN { Cardinality(Taken) + 1 } ELSE {}

\* Variant: a result stored while another worker is running loses its digest.
Collect_LostWhenBusy(res, i, pair, others) ==
  IF others # {} THEN (i :> << pair[1], None >>) @@ res ELSE (i :> pair) @@ res

\* The result buffer of starmap: the result of task i is stored at i,
\* whatever else is still running.
Collect(res, i, pair, others) == (i :> pair) @@ res

\* A worker finishes its task, process_file_for_hashing(path, hash_algo),
\* hands the result over and takes the next task of the queue, if any.
WorkerFinish ==
  /\ pc = "hashing"
  /\ \E i \in inflight :
       /\ inflight' = (inflight \ {i}) \cup NextTask
       /\ results' = Collect(results, i, process_file_for_hashing(tasks[i], hash_algo),
                             inflight \ {i})
  /\ UNCHANGED << tree, root, pc, file_list, size_map, tasks, pool,
                  found_duplicates, delete, dry_run, gi, choice, prompts, exists,
                  exitStatus, run, prev, report >>

\* lines 83-94: starmap returns once every task is done, with the results
\* in task order; they are merged by digest and the lists of one path dropped.
Group ==
  /\ pc = "hashing"
  /\ inflight = {}
  /\ DOMAIN results = 1..Len(tasks)
  /\ found_duplicates' = FoundDuplicates(Hashes([i \in 1..Len(tasks) |-> results[i]]))
  /\ pool' = 0
  /\ pc' = "scanned"
  /\ UNCHANGED << tree, root, file_list, size_map, tasks, inflight, results,
                  delete, dry_run, gi, choice, prompts, exists, exitStatus, run, prev, report >>

\* ---------------------------------------------------- main, after the scan
\* main, lines 207-221: find_duplicates has returned, its locals are gone
\* and only the mapping is kept; the report (written when there are
\* duplicates, unless opening the output file raises IOError), then
\* delete_duplicates when args.delete.  The flags were parsed before the
\* scan; they are first read here.
MainReport ==
  /\ pc = "scanned"
  /\ file_list' = <<>>
  /\ size_map' = <<>>
  /\ tasks' = <<>>
  /\ results' = <<>>
  /\ IF Len(found_duplicates) = 0 THEN report' = report
     ELSE \E written \in BOOLEAN :
            report' = IF written THEN Csv(found_duplicates) ELSE report
  /\ \E d \in BOOLEAN, dr \in BOOLEAN :
       /\ delete' = d
       /\ dry_run' = dr
       /\ IF d THEN pc' = "delete" /\ exitStatus' = exitStatus
          ELSE pc' = "exit" /\ exitStatus' = 0
  /\ UNCHANGED << tree, root, pool, inflight, found_duplicates, gi, choice, prompts,
                  exists, run, prev >>

\* --------------------------------------------------- delete_duplicates
\* What input() may return, and str.lower() on it.
Answers == {"y", "Y", "a", "A", "n", ""}

lower(s) == CASE s = "Y" -> "y" [] s = "A" -> "a" [] OTHER -> s

IsConfirm(c) == c = "y"

\* Variant: the abort answer is not recognised.
IsAbort_Never(c) == FALSE

IsAbort(c) == c = "a"

\* Variant: the whole group is scheduled for removal.
duplicates_to_delete_All(file_paths) == file_paths

\* line 126: file_paths[1:], all but the original file_paths[0].
duplicates_to_delete(file_paths) == Tail(file_paths)

\* Variant: the dry-run flag is not honoured.
SkipsPrompt_Never(dry) == FALSE

\* line 133: the iteration stops before the prompt in dry-run mode.
SkipsPrompt(dry) == dry

\* After the iteration of group gi: the next group, or the end of the loop
\* and of main.
NextGroup ==
  IF gi < Len(found_duplicates)
  THEN gi' = gi + 1 /\ pc' = "loop" /\ exitStatus' = exitStatus
  ELSE gi' = gi /\ pc' = "exit" /\ exitStatus' = 0

\* lines 117-122: nothing to do for an empty mapping.
DeleteEnter ==
  /\ pc = "delete"
  /\ IF Len(found_duplicates) = 0
     THEN pc' = "exit" /\ exitStatus' = 0 /\ gi' = gi
     ELSE pc' = "loop" /\ exitStatus' = exitStatus /\ gi' = 1
  /\ UNCHANGED << tree, root, file_list, size_map, tasks, pool, inflight,
                  results, found_duplicates, delete, dry_run, choice, prompts, exists,
                  run, prev, report >>

\* lines 124-135: one iteration in dry-run mode: the group is announced.
DeleteDryRun ==
  /\ pc = "loop"
  /\ SkipsPrompt(dry_run)
  /\ NextGroup
  /\ UNCHANGED << tree, root, file_list, size_map, tasks, pool, inflight,
                  results, found_duplicates, delete, dry_run, choice, prompts, exists,
                  run, prev, report >>

\* lines 124-147: one iteration in live mode: the prompt, then os.remove of
\* each duplicate (a removal that raises is logged and leaves the file), or
\* the break on abort.
DeleteLive ==
  /\ pc = "loop"
  /\ ~SkipsPrompt(dry_run)
  /\ \E answer \in Answers :
       /\ choice' = lower(answer)
       /\ prompts' = prompts + 1
       /\ IF IsConfirm(choice')
          THEN /\ \E failed \in SUBSET Range(duplicates_to_delete(found_duplicates[gi].v)) :
                    exists' = exists \ (Range(duplicates_to_delete(found_duplicates[gi].v))
                                          \ failed)
               /\ NextGroup
          ELSE IF IsAbort(choice')
          THEN /\ exists' = exists
               /\ gi' = gi /\ pc' = "exit" /\ exitStatus' = 0
          ELSE /\ exists' = exists
               /\ NextGroup
  /\ UNCHANGED << tree, root, file_list, size_map, tasks, pool, inflight,
                  results, found_duplicates, delete, dry_run, run, prev, report >>

\* ------------------------------------------------------ a second scan
\* The grouping as a value that ignores order: digest keys and the members
\* of each group.
Grouping(d) == { << d[i].k, Range(d[i].v) >> : i \in 1..Len(d) }

\* The program is run again on the tree it left unchanged.
Rescan ==
  /\ pc = "exit"
  /\ exitStatus = 0
  /\ run = 1
  /\ exists = Paths
  /\ run' = 2
  /\ prev' = Grouping(found_duplicates)
  /\ ScanReset
  /\ pc' = "main"
  /\ exitStatus' = -1
  /\ delete' = FALSE
  /\ dry_run' = FALSE
  /\ gi' = 0
  /\ choice' = ""
  /\ prompts' = 0
  /\ report' = NoReport
  /\ UNCHANGED << tree, root, exists >>

Next ==
  \/ MainCheckRoot
  \/ Walk
  \/ Pass1
  \/ PoolStart
  \/ WorkerFinish
  \/ Group
  \/ MainReport
  \/ DeleteEnter
  \/ DeleteDryRun
  \/ DeleteLive
  \/ Rescan

Spec == Init /\ [][Next]_vars

\* ------------------------------------- delete_duplicates on any mapping
\* The mappings delete_duplicates can be given: groups of two or more
\* paths, no path twice, under distinct digests.
Cut(s, n) ==
  IF n = 0 THEN << [k |-> << "sha256", 1 >>, v |-> s] >>
  ELSE << [k |-> << "sha256", 1 >>, v |-> SubSeq(s, 1, n)],
          [k |-> << "sha256", 2 >>, v |-> SubSeq(s, n + 1, Len(s))] >>

Mappings ==
  { <<>> } \cup
  UNION { { Cut(s, n) : n \in {0} \cup { m \in 2..Len(s) : Len(s) - m >= 2 } } :
          s \in UNION { Orders(S) : S \in { T \in SUBSET Paths : Cardinality(T) >= 2 } } }

InitDelete ==
  /\ tree = [p \in Paths |-> 1]
  /\ root = "ok"
  /\ pc = "delete"
  /\ file_list = <<>>
  /\ size_map = <<>>
  /\ tasks = <<>>
  /\ pool = 0
  /\ inflight = {}
  /\ results = <<>>
  /\ found_duplicates \in Mappings
  /\ delete = TRUE
  /\ dry_run \in BOOLEAN
  /\ gi = 0
  /\ choice = ""
  /\ prompts = 0
  /\ exists = Paths
  /\ exitStatus = -1
  /\ run = 1
  /\ prev = {}
  /\ report = NoReport

NextDelete ==
  \/ DeleteEnter
  \/ DeleteDryRun
  \/ DeleteLive

SpecDelete == InitDelete /\ [][NextDelete]_vars

\* ================================================================ claims
\* find_duplicates has returned its mapping to main.
Returned == pc \in {"scanned", "delete", "loop", "exit"}

GroupIndexes == 1..Len(found_duplicates)

Members(i) == Range(found_duplicates[i].v)

Grouped == UNION { Members(i) : i \in GroupIndexes }

IsRegular(p) == Entry(p).kind = "file"

\* C1: all the paths of one returned duplicate group have the same byte
\* size, the one pass 1 recorded for them (no two files of distinct sizes
\* share a group).
C1_GroupHasOneSize ==
  Returned =>
    \A i \in GroupIndexes : \A p, q \in Members(i) : getsize(p) = getsize(q)

\* C2 as stated: whenever the scan of a listable root returns, any two
\* files of identical content are together in exactly one group.
C2_IdenticalContentShareGroup ==
  (Returned /\ root = "ok") =>
    \A p, q \in Paths :
      (p # q /\ IsRegular(p) /\ IsRegular(q) /\ Entry(p).content = Entry(q).content)
        => Cardinality({ i \in GroupIndexes : p \in Members(i) /\ q \in Members(i) }) = 1

\* C2 amended: whenever the scan of a listable root returns, any two regular
\* files of identical content whose size query and hashing both succeed are
\* members of the same group, that group is keyed by the digest of their
\* content, and neither is a member of any other group.
Hashable(p) == IsRegular(p) /\ Entry(p).statable /\ Entry(p).readable

C2_HashableIdenticalContentShareGroup ==
  (Returned /\ root = "ok") =>
    \A p, q \in Paths :
      (p # q /\ Hashable(p) /\ Hashable(q) /\ Entry(p).content = Entry(q).content)
        => /\ \E i \in GroupIndexes :
                /\ {p, q} \subseteq Members(i)
                /\ found_duplicates[i].k = << hash_algo, Fingerprint(Entry(p).content) >>
           /\ Cardinality({ i \in GroupIndexes : p \in Members(i) }) = 1
           /\ Cardinality({ i \in GroupIndexes : q \in Members(i) }) = 1

\* Two files of identical content, enumerated in the reverse of the order
\* of their names, are grouped, next to a file of the same content that was
\* a candidate and is left out because its hashing failed.
C2_Witness ==
  /\ pc = "scanned"
  /\ root = "ok"
  /\ \E p, q, u \in Paths :
       /\ p < q
       /\ Hashable(p) /\ Hashable(q) /\ Entry(p).content = Entry(q).content
       /\ IsRegular(u) /\ ~Entry(u).readable /\ Entry(u).content = Entry(p).content
       /\ u \in Range(tasks)
       /\ \E i \in GroupIndexes : found_duplicates[i].v = << q, p >>

\* C3: when hashing a candidate fails the scan still returns, the path
\* whose digest is None is in no returned group, and every returned group
\* has at least two members.
C3_FailedHashExcluded ==
  /\ pc = "scanned" =>
       \A i \in DOMAIN results : results[i][2] = None => results[i][1] \notin Grouped
  /\ Returned => \A i \in GroupIndexes : Len(found_duplicates[i].v) >= 2

\* The scan returned although a hash failed: the failed path left a
\* single readable file of its content, whose group was dropped, and
\* another group was returned.
C3_Witness ==
  /\ pc = "scanned"
  /\ \E i \in DOMAIN results :
       /\ results[i][2] = None
       /\ \E j \in DOMAIN results :
            /\ results[j][2] # None
            /\ results[j][1] \notin Grouped
            /\ Entry(results[j][1]).content = Entry(results[i][1]).content
  /\ Len(found_duplicates) >= 1

\* C4: when listing the root is denied the scan is aborted and the process
\* ends with a non-zero exit status.
C4_DeniedRootIsFatal ==
  (root = "denied" /\ pc = "exit") => exitStatus # 0

\* C5: a second scan of the unchanged tree returns the grouping of the
\* first (same digest keys, same members of each group), whatever the pool
\* sizes and the order the workers finished in.
C5_RescanSameGrouping ==
  (run = 2 /\ Returned) => Grouping(found_duplicates) = prev

\* The second scan returned two groups, one of them listed in an order
\* that is not the order of the path names.
C5_Witness ==
  /\ run = 2
  /\ pc = "scanned"
  /\ Len(found_duplicates) = 2
  /\ \E i \in GroupIndexes : found_duplicates[i].v[1] > found_duplicates[i].v[2]

\* C6: a symbolic link is in no size group, is no candidate sent to
\* hashing and is in no duplicate group.
C6_NoSymlinkAnywhere ==
  \A p \in Paths :
    Entry(p).kind = "link" =>
      /\ p \notin Range(file_list)
      /\ p \notin Range(Values(size_map))
      /\ p \notin Range(tasks)
      /\ p \notin Grouped

\* The tree holds a link whose target content is that of a returned
\* duplicate group.
C6_Witness ==
  /\ pc = "scanned"
  /\ \E p \in Paths :
       /\ Entry(p).kind = "link"
       /\ \E i \in GroupIndexes :
            found_duplicates[i].k = << hash_algo, Fingerprint(Entry(p).content) >>

\* C7: a special file (not a regular file, a link or a directory) enters
\* no size group and is not dispatched to a hash worker.
C7_NoSpecialFileSizedOrHashed ==
  \A p \in Paths :
    Entry(p).kind = "special" =>
      /\ p \notin Range(Values(size_map))
      /\ p \notin Range(tasks)

\* C8: in dry-run mode delete_duplicates issues no prompt and every file
\* is still there.
C8_DryRunTouchesNothing ==
  dry_run => (prompts = 0 /\ exists = Paths)

\* A dry run went through a mapping of two groups to its end.
C8_Witness ==
  /\ dry_run
  /\ pc = "exit"
  /\ gi = 2
  /\ Len(found_duplicates) = 2

\* C9: in live mode each iteration prompts once for the current group; a
\* confirm removes at most the non-original members of that group and goes
\* on to the next group; an abort removes nothing and ends the processing,
\* after which nothing is prompted or removed; any other answer removes
\* nothing and goes on to the next group.
Advances ==
  IF gi < Len(found_duplicates) THEN pc' = "loop" /\ gi' = gi + 1 ELSE pc' = "exit"

C9_LiveStep ==
  /\ (pc = "loop" /\ ~dry_run) =>
       /\ prompts' = prompts + 1
       /\ choice' = "y" =>
            /\ (exists \ exists') \subseteq
                 (Range(found_duplicates[gi].v) \ { found_duplicates[gi].v[1] })
            /\ exists' \subseteq exists
            /\ Advances
       /\ choice' = "a" => (exists' = exists /\ pc' = "exit")
       /\ choice' \notin {"y", "a"} => (exists' = exists /\ Advances)
  /\ pc = "exit" => (prompts' = prompts /\ exists' = exists)

C9_LiveAnswers == [][C9_LiveStep]_vars

\* The first group was confirmed and lost its duplicates, the second was
\* answered with abort and is intact.
C9_Witness ==
  /\ ~dry_run
  /\ pc = "exit"
  /\ choice = "a"
  /\ prompts = 2
  /\ gi = 2
  /\ Len(found_duplicates) = 2
  /\ Range(found_duplicates[1].v) \cap exists = { found_duplicates[1].v[1] }
  /\ Range(found_duplicates[2].v) \subseteq exists

\* C10: the first member of every group returned by find_duplicates is
\* never removed, and no path is in two groups, so every group keeps at
\* least one file.
C10_OriginalsSurvive ==
  Returned =>
    /\ \A i \in GroupIndexes : found_duplicates[i].v[1] \in exists
    /\ \A i, j \in GroupIndexes : i # j => Members(i) \cap Members(j) = {}
    /\ \A i \in GroupIndexes : Cardinality(Members(i)) = Len(found_duplicates[i].v)

\* Both groups of a scan were confirmed and lost every duplicate.
C10_Witness ==
  /\ pc = "exit"
  /\ run = 1
  /\ Len(found_duplicates) = 2
  /\ \A i \in GroupIndexes : Members(i) \cap exists = { found_duplicates[i].v[1] }

====
